---- MODULE Spec2Model ----
(***************************************************************************)
(* The rhythm game of src/main.ts: the state fold reduceState over the    *)
(* merged channel of clock ticks, chart timers, key presses, the          *)
(* tail-release notifier and the game-end timer, together with the        *)
(* executor render, which starts the sounds of playNote after every       *)
(* emitted state.                                                         *)
(*                                                                         *)
(* Units.  Times are held in milliseconds (0.02 s = 20), lengths in       *)
(* tenths of a pixel (Px), score and multiplier in hundredths (Pt), so    *)
(* that 3.5 px per tick and the 0.2 multiplier step are integers.         *)
(* Real time is divided into slots of one tick period: clock is the       *)
(* number of ticks the interval has produced, a timer due at d ms fires   *)
(* in slot d \div 20, after the tick that ends the previous slot (the     *)
(* interval is registered first, so it wins a tie).                       *)
(* started is the set of ids of the notes whose sustained sound has been  *)
(* attacked by playInstrument, holding the pairs <<lane, id>> of the notes *)
(* with a tail whose hitting key press is still down, published the ids   *)
(* of the notes for which a tail release has reached the reducer.         *)
(* rng holds the accumulators of the four generator streams; they feed    *)
(* only the filler sound, and their orbit is explored on its own by       *)
(* SpecRng.                                                               *)
(* FairSpec adds the firing of the timers, for the runs that are followed *)
(* to the end of the game.                                                *)
(* Note fields that no transition reads (instrumentName, velocity, cx)    *)
(* and Tail fields width and style are left out.                          *)
(***************************************************************************)
EXTENDS Integers, Sequences, FiniteSets, TLC

VARIABLES s, chart, clock, spawned, played, endFired, unsubscribed,
          subs, started, held, holding, dispatch, published, rng

vars == <<s, chart, clock, spawned, played, endFired, unsubscribed,
          subs, started, held, holding, dispatch, published, rng>>

(* ---------------------------- bounds ---------------------------------- *)

\* number of notes of the streak chart
StreakNotes == 20
\* most mis-presses recorded between two ticks
MaxRandom == 1
\* most lane keys held down at once
MaxHeld == 1
\* the player uses the keys of lanes 0 .. MaxKey
MaxKey == 1

(* --------------------------- constants -------------------------------- *)

TICK_RATE_MS == 20
\* 0.02 s, in milliseconds
SECOND_PER_TICK == 20
NOTE_PATH_LENGTH == 350
NOTE_TRAVEL_DURATION == 2000
NOTE_ALIGNMENT_TOLERANCE == 30
\* the tolerance 0.25 s of a tail release, in milliseconds
TAIL_TOLERANCE == 250
\* a note of at least 1 s has a tail, in milliseconds
SUSTAIN_THRESHOLD == 1000
\* the four lanes KeyH, KeyJ, KeyK, KeyL
Columns == 0 .. 3

\* lengths are held in tenths of a pixel
Px(x) == 10 * x
\* score and multiplier are held in hundredths
Pt(x) == 100 * x

Abs(x) == IF x < 0 THEN -x ELSE x
Max(a, b) == IF a >= b THEN a ELSE b

\* Math.round(x * 10) / 10 of a non-negative x held in hundredths
Round1(x) == ((x + 5) \div 10) * 10

(* ------------------------- utility functions --------------------------- *)

assignColumn(pitch) == pitch % 4

movementPerTick == Px(NOTE_PATH_LENGTH) \div (NOTE_TRAVEL_DURATION \div TICK_RATE_MS)

\* noteDuration in milliseconds
tailLength(noteDuration) == (Px(NOTE_PATH_LENGTH) * noteDuration) \div NOTE_TRAVEL_DURATION

\* isAligned without Math.abs: any note above the window counts as aligned
isAligned_noAbs(note) == note.cy - Px(NOTE_PATH_LENGTH) <= Px(NOTE_ALIGNMENT_TOLERANCE)

isAligned(note) == Abs(note.cy - Px(NOTE_PATH_LENGTH)) <= Px(NOTE_ALIGNMENT_TOLERANCE)

(* ------------------------------ state ---------------------------------- *)

initialState ==
    [time |-> 0, gameEnd |-> FALSE, note |-> <<>>, tail |-> <<>>, exit |-> <<>>,
     noteCount |-> 0, score |-> 0, playNote |-> <<>>, backgroundNote |-> <<>>,
     randomNotes |-> <<>>, consecutiveHits |-> 0, multiplier |-> Pt(1)]

\* the tail field of a note is <<>> (null) or <<t>>
hasTail(note) == note.tail # <<>>

createTail(st, e) ==
    LET tailDistance == tailLength(e.note.end - e.note.start)
    IN  [id |-> "Tail" \o ToString(st.noteCount),
         createTime |-> st.time,
         height |-> tailDistance,
         x |-> <<35, 75, 115, 155>>[assignColumn(e.note.pitch) + 1],
         y |-> -1 * tailDistance,
         duration |-> e.note.end - e.note.start]

\* createNote that gives a tail only to notes longer than the threshold
createNote_longerOnly(st, e) ==
    IF e.type = "KeyPressEvent"
    THEN [id |-> "", createTime |-> 0, userPlayed |-> TRUE, pitch |-> 0,
          start |-> 0, end |-> 0, cy |-> 0, tail |-> <<>>]
    ELSE [id |-> IF e.type = "MusicNote" THEN "note" \o ToString(st.noteCount) ELSE "",
          createTime |-> st.time,
          userPlayed |-> e.note.userPlayed,
          pitch |-> e.note.pitch,
          start |-> e.note.start,
          end |-> e.note.end,
          cy |-> 0,
          tail |-> IF e.note.end - e.note.start > SUSTAIN_THRESHOLD
                   THEN <<createTail(st, e)>> ELSE <<>>]

createNote(st, e) ==
    IF e.type = "KeyPressEvent"
    THEN [id |-> "", createTime |-> 0, userPlayed |-> TRUE, pitch |-> 0,
          start |-> 0, end |-> 0, cy |-> 0, tail |-> <<>>]
    ELSE [id |-> IF e.type = "MusicNote" THEN "note" \o ToString(st.noteCount) ELSE "",
          createTime |-> st.time,
          userPlayed |-> e.note.userPlayed,
          pitch |-> e.note.pitch,
          start |-> e.note.start,
          end |-> e.note.end,
          cy |-> 0,
          tail |-> IF e.note.end - e.note.start >= SUSTAIN_THRESHOLD
                   THEN <<createTail(st, e)>> ELSE <<>>]

moveNote(note) == [note EXCEPT !.cy = note.cy + movementPerTick]

\* moveTail that shrinks the tail without anchoring its bottom to the line
moveTail_noAnchor(tail) ==
    IF tail.y + tail.height >= Px(NOTE_PATH_LENGTH)
    THEN [tail EXCEPT !.height = Max(0, tail.height - movementPerTick)]
    ELSE [tail EXCEPT !.y = tail.y + movementPerTick]

moveTail(tail) ==
    IF tail.y + tail.height >= Px(NOTE_PATH_LENGTH)
    THEN LET newHeight == Max(0, tail.height - movementPerTick)
         IN  [tail EXCEPT !.height = newHeight, !.y = Px(NOTE_PATH_LENGTH) - newHeight]
    ELSE [tail EXCEPT !.y = tail.y + movementPerTick]

\* Array.prototype.includes
Includes(q, x) == \E i \in 1 .. Len(q) : q[i] = x

\* noteExpired that already holds at the end of the travel time
noteExpired_atTravelEnd(elapsed, note) ==
    (elapsed - note.createTime) * SECOND_PER_TICK >= NOTE_TRAVEL_DURATION

noteExpired(elapsed, note) ==
    (elapsed - note.createTime) * SECOND_PER_TICK > NOTE_TRAVEL_DURATION

\* tailExpired with the travel time of a note
tailExpired_asNote(elapsed, tail) ==
    (elapsed - tail.createTime) * SECOND_PER_TICK > NOTE_TRAVEL_DURATION

tailExpired(elapsed, tail) ==
    (elapsed - tail.createTime) * SECOND_PER_TICK > tail.duration * 5

\* missedNotes without the filter on notes with a tail
missedNotes_withTails(st, elapsed) ==
    LET expiredNote == SelectSeq(st.note, LAMBDA n : noteExpired(elapsed, n))
    IN  SelectSeq(expiredNote, LAMBDA n : ~Includes(st.playNote, n))

missedNotes(st, elapsed) ==
    LET expiredNote == SelectSeq(st.note, LAMBDA n : noteExpired(elapsed, n))
    IN  SelectSeq(SelectSeq(expiredNote, LAMBDA n : ~Includes(st.playNote, n)),
                  LAMBDA n : ~hasTail(n))

\* tick with the multiplier left as it is when a note is missed
tick_keepMultiplier(st, elapsed) ==
    LET expiredNote == SelectSeq(st.note, LAMBDA n : noteExpired(elapsed, n))
        activeNote  == SelectSeq(st.note, LAMBDA n : ~noteExpired(elapsed, n))
        expiredTail == SelectSeq(st.tail, LAMBDA t : tailExpired(elapsed, t))
        activeTail  == SelectSeq(st.tail, LAMBDA t : ~tailExpired(elapsed, t))
        missed      == missedNotes(st, elapsed)
    IN  [st EXCEPT !.note = [i \in 1 .. Len(activeNote) |-> moveNote(activeNote[i])],
                   !.tail = [i \in 1 .. Len(activeTail) |-> moveTail(activeTail[i])],
                   !.exit = expiredNote \o expiredTail,
                   !.time = elapsed,
                   !.playNote = <<>>,
                   !.backgroundNote = <<>>,
                   !.randomNotes = <<>>,
                   !.consecutiveHits = IF Len(missed) > 0 THEN 0 ELSE st.consecutiveHits]

\* tick that leaves the play requests of the previous tick in place
tick_keepPlayNote(st, elapsed) ==
    [tick_keepMultiplier(st, elapsed) EXCEPT
        !.playNote = st.playNote,
        !.multiplier = IF Len(missedNotes(st, elapsed)) > 0 THEN Pt(1) ELSE st.multiplier]

tick(st, elapsed) ==
    LET expiredNote == SelectSeq(st.note, LAMBDA n : noteExpired(elapsed, n))
        activeNote  == SelectSeq(st.note, LAMBDA n : ~noteExpired(elapsed, n))
        expiredTail == SelectSeq(st.tail, LAMBDA t : tailExpired(elapsed, t))
        activeTail  == SelectSeq(st.tail, LAMBDA t : ~tailExpired(elapsed, t))
        missed      == missedNotes(st, elapsed)
    IN  [st EXCEPT !.note = [i \in 1 .. Len(activeNote) |-> moveNote(activeNote[i])],
                   !.tail = [i \in 1 .. Len(activeTail) |-> moveTail(activeTail[i])],
                   !.exit = expiredNote \o expiredTail,
                   !.time = elapsed,
                   !.playNote = <<>>,
                   !.backgroundNote = <<>>,
                   !.randomNotes = <<>>,
                   !.consecutiveHits = IF Len(missed) > 0 THEN 0 ELSE st.consecutiveHits,
                   !.multiplier = IF Len(missed) > 0 THEN Pt(1) ELSE st.multiplier]

\* calculateMultiplierAndScore testing the streak before its increment
calculateMultiplierAndScore_oldStreak(st) ==
    LET newStreak == st.consecutiveHits + 1
        newMultiplier == IF st.consecutiveHits % 10 = 0 THEN st.multiplier + 20 ELSE st.multiplier
        roundedMultiplier == Round1(newMultiplier)
        roundedScore == Round1(st.score + 1 * roundedMultiplier)
    IN  [newStreak |-> newStreak, roundedMultiplier |-> roundedMultiplier,
         roundedScore |-> roundedScore]

calculateMultiplierAndScore(st) ==
    LET newStreak == st.consecutiveHits + 1
        newMultiplier == IF newStreak % 10 = 0 THEN st.multiplier + 20 ELSE st.multiplier
        roundedMultiplier == Round1(newMultiplier)
        roundedScore == Round1(st.score + 1 * roundedMultiplier)
    IN  [newStreak |-> newStreak, roundedMultiplier |-> roundedMultiplier,
         roundedScore |-> roundedScore]

\* findNote that locates the last live note of the column
findNote_last(st, column) ==
    LET hits == {i \in 1 .. Len(st.note) : assignColumn(st.note[i].pitch) = column}
    IN  IF hits = {} THEN 0 ELSE CHOOSE i \in hits : \A j \in hits : i >= j

\* s.note.find(...): the index of the first live note of the column, 0 if none
findNote(st, column) ==
    LET hits == {i \in 1 .. Len(st.note) : assignColumn(st.note[i].pitch) = column}
    IN  IF hits = {} THEN 0 ELSE CHOOSE i \in hits : \A j \in hits : i <= j

\* isTailAlign without the travel duration
isTailAlign_noTravel(st, e) ==
    Abs(st.time * SECOND_PER_TICK - e.endTime) <= TAIL_TOLERANCE

isTailAlign(st, e) ==
    Abs(st.time * SECOND_PER_TICK - e.endTime - NOTE_TRAVEL_DURATION) <= TAIL_TOLERANCE

\* processNoteEvent, the branches of a key press --------------------------

\* hitNote that does not report the removed note in exit
hitNote_noExit(st, activeNote) ==
    LET r == calculateMultiplierAndScore(st)
    IN  [st EXCEPT !.note = SelectSeq(st.note, LAMBDA n : n # activeNote),
                   !.score = r.roundedScore,
                   !.playNote = Append(st.playNote, activeNote),
                   !.consecutiveHits = r.newStreak,
                   !.multiplier = r.roundedMultiplier]

\* an aligned note without a tail: removed, played and scored
hitNote(st, activeNote) ==
    LET r == calculateMultiplierAndScore(st)
    IN  [st EXCEPT !.note = SelectSeq(st.note, LAMBDA n : n # activeNote),
                   !.exit = Append(st.exit, activeNote),
                   !.score = r.roundedScore,
                   !.playNote = Append(st.playNote, activeNote),
                   !.consecutiveHits = r.newStreak,
                   !.multiplier = r.roundedMultiplier]

\* holdNote removing the tail of the note together with the note
holdNote_dropTail(st, activeNote) ==
    [st EXCEPT !.note = SelectSeq(st.note, LAMBDA n : n # activeNote),
               !.tail = SelectSeq(st.tail, LAMBDA u : u.id # activeNote.tail[1].id),
               !.exit = Append(st.exit, activeNote),
               !.playNote = Append(st.playNote, activeNote)]

\* holdNote that does not report the pressed note in exit
holdNote_noExit(st, activeNote) ==
    [st EXCEPT !.note = SelectSeq(st.note, LAMBDA n : n # activeNote),
               !.playNote = Append(st.playNote, activeNote)]

\* an aligned note with a tail: removed and played, scored by its tail
holdNote(st, activeNote) ==
    [st EXCEPT !.note = SelectSeq(st.note, LAMBDA n : n # activeNote),
               !.exit = Append(st.exit, activeNote),
               !.playNote = Append(st.playNote, activeNote)]

\* no note in the column, or the note is not aligned: a dummy note is counted
wrongPress(st, e) ==
    [st EXCEPT !.randomNotes = Append(st.randomNotes, createNote(st, e))]

\* releaseTail that also resets the score on a misaligned release
releaseTail_resetScore(st, e) ==
    IF isTailAlign(st, e)
    THEN LET r == calculateMultiplierAndScore(st)
         IN  [st EXCEPT !.score = r.roundedScore,
                        !.consecutiveHits = r.newStreak,
                        !.multiplier = r.roundedMultiplier]
    ELSE [st EXCEPT !.score = 0, !.consecutiveHits = 0, !.multiplier = Pt(1)]

\* processNoteEvent, the branch of EndTail
releaseTail(st, e) ==
    IF isTailAlign(st, e)
    THEN LET r == calculateMultiplierAndScore(st)
         IN  [st EXCEPT !.score = r.roundedScore,
                        !.consecutiveHits = r.newStreak,
                        !.multiplier = r.roundedMultiplier]
    ELSE [st EXCEPT !.consecutiveHits = 0, !.multiplier = Pt(1)]

processNoteEvent(st, e) ==
    IF e.type = "KeyPressEvent"
    THEN LET k == findNote(st, e.column)
         IN  IF k # 0
             THEN IF isAligned(st.note[k])
                  THEN IF ~hasTail(st.note[k])
                       THEN hitNote(st, st.note[k])
                       ELSE holdNote(st, st.note[k])
                  ELSE wrongPress(st, e)
             ELSE wrongPress(st, e)
    ELSE releaseTail(st, e)

\* reduceState with noteCount left alone when the new note has a tail
reduceState_sameCount(st, e) ==
    IF e.type = "MusicNote"
    THEN LET newNote == createNote(st, e)
         IN  IF hasTail(newNote)
             THEN [st EXCEPT !.note = Append(st.note, newNote),
                             !.tail = Append(st.tail, newNote.tail[1])]
             ELSE [st EXCEPT !.note = Append(st.note, newNote),
                             !.noteCount = st.noteCount + 1]
    ELSE IF e.type = "KeyPressEvent" THEN processNoteEvent(st, e)
    ELSE IF e.type = "BackgroundNote"
         THEN [st EXCEPT !.playNote = Append(st.backgroundNote, createNote(st, e))]
    ELSE IF e.type = "Tick" THEN tick(st, e.elapsed)
    ELSE IF e.type = "EndTail" THEN processNoteEvent(st, e)
    ELSE [st EXCEPT !.gameEnd = TRUE]

\* reduceState whose BackgroundNote branch appends to playNote
reduceState_appendPlayNote(st, e) ==
    IF e.type = "BackgroundNote"
    THEN [st EXCEPT !.playNote = Append(st.playNote, createNote(st, e))]
    ELSE IF e.type = "MusicNote"
         THEN [reduceState_sameCount(st, e) EXCEPT !.noteCount = st.noteCount + 1]
         ELSE reduceState_sameCount(st, e)

reduceState(st, e) ==
    IF e.type = "MusicNote"
    THEN LET newNote == createNote(st, e)
         IN  IF hasTail(newNote)
             THEN [st EXCEPT !.note = Append(st.note, newNote),
                             !.noteCount = st.noteCount + 1,
                             !.tail = Append(st.tail, newNote.tail[1])]
             ELSE [st EXCEPT !.note = Append(st.note, newNote),
                             !.noteCount = st.noteCount + 1]
    ELSE IF e.type = "KeyPressEvent" THEN processNoteEvent(st, e)
    ELSE IF e.type = "BackgroundNote"
         THEN [st EXCEPT !.playNote = Append(st.backgroundNote, createNote(st, e))]
    ELSE IF e.type = "Tick" THEN tick(st, e.elapsed)
    ELSE IF e.type = "EndTail" THEN processNoteEvent(st, e)
    ELSE [st EXCEPT !.gameEnd = TRUE]

(* ------------------- the random number generator ---------------------- *)

\* RNG.a and RNG.m - 1 (RNG.m itself is 2^31)
RNG_a == 1103515245
RNG_m1 == 2147483647

\* Numbers are IEEE doubles.  A non-negative integer below 2^66 is held as six
\* limbs of 11 bits, least significant first.
Base == 2048
Pow2(k) == 2 ^ k
Limbs(x) == << x % Base, (x \div Base) % Base, x \div (Base * Base), 0, 0, 0 >>

\* carry propagation: every limb back below Base
Carry(raw) ==
    LET c1 == raw[1] \div Base
        c2 == (raw[2] + c1) \div Base
        c3 == (raw[3] + c2) \div Base
        c4 == (raw[4] + c3) \div Base
        c5 == (raw[5] + c4) \div Base
    IN  << raw[1] % Base, (raw[2] + c1) % Base, (raw[3] + c2) % Base,
           (raw[4] + c3) % Base, (raw[5] + c4) % Base, raw[6] + c5 >>

\* the exact product of two integers below 2^33
Mul(x, y) ==
    LET p == Limbs(x)
        q == Limbs(y)
    IN  Carry(<< p[1] * q[1],
                 p[1] * q[2] + p[2] * q[1],
                 p[1] * q[3] + p[2] * q[2] + p[3] * q[1],
                 p[2] * q[3] + p[3] * q[2],
                 p[3] * q[3],
                 0 >>)

\* number of significant bits
Bits(n) == Cardinality({b \in 0 .. 11 : Pow2(b) <= n})
BitLen(l) ==
    LET top == {k \in 1 .. 6 : l[k] # 0}
        t == CHOOSE k \in top : \A o \in top : o <= k
    IN  IF top = {} THEN 0 ELSE 11 * (t - 1) + Bits(l[t])

\* the nearest double: 53 significant bits, ties to even
Round53(l) ==
    LET k == BitLen(l) - 53
        r == l[1] % Pow2(k)
        odd == (l[1] \div Pow2(k)) % 2 = 1
        up == 2 * r > Pow2(k) \/ (2 * r = Pow2(k) /\ odd)
    IN  IF k <= 0 THEN l
        ELSE Carry([l EXCEPT ![1] = l[1] - r + (IF up THEN Pow2(k) ELSE 0)])

\* x % RNG.m of a non-negative double: its low 31 bits
Mod31(l) == l[1] + Base * l[2] + Base * Base * (l[3] % 512)

\* the seeds of the four generator streams
Seeds == << 100, 1, 2, 3 >>

\* the increment with which the hash of the first seed is RNG.m - 1
RNG_c_reachesTop == RNG_m1 - Mod31(Mul(RNG_a, Seeds[1]))

RNG_c == 12345

\* RNG.hash: (RNG.a * seed + RNG.c) % RNG.m, each operation rounded
hash(seed) ==
    LET product == Round53(Mul(RNG_a, seed))
        sum == Round53(Carry([product EXCEPT ![1] = product[1] + RNG_c]))
    IN  Mod31(sum)

\* RNG.scale: the quotient hash / (RNG.m - 1), held as a fraction
scale(h) == [num |-> h, den |-> RNG_m1]

(* --------------------------- the chart --------------------------------- *)

Row(u, p, a, b) == [userPlayed |-> u, pitch |-> p, start |-> a, end |-> b]

\* Scenario B: a chord of tailless notes in lane 0
StreakChart == [i \in 1 .. StreakNotes |-> Row(TRUE, 0, 0, 500)]

\* Scenario C: a sustain note of 2.0 s at start 0 (lane 0), a tailless note
\* (lane 1) and a closing tailless note that keeps the game going to 5.0 s
SustainChart ==
    << Row(TRUE, 0, 0, 2000), Row(TRUE, 1, 0, 500), Row(TRUE, 5, 2600, 3000) >>

\* a tailless player note (lane 0) and an ambient note of 1.2 s (lane 1) with
\* the same start, and a later pair of an ambient and a player note
AmbientChart ==
    << Row(TRUE, 0, 0, 500), Row(FALSE, 1, 0, 1200),
       Row(FALSE, 2, 600, 900), Row(TRUE, 1, 600, 1100) >>

\* a sustain note of exactly 1.0 s (lane 0), a note that spawns while the
\* sustain can be pressed, and a closing note: the game outlasts the tail
TailChart ==
    << Row(TRUE, 0, 0, 1000), Row(TRUE, 1, 1900, 2300), Row(TRUE, 1, 3000, 3100) >>

\* a chart whose last row is shorter than one tick period
ShortChart ==
    << Row(TRUE, 0, 0, 500), Row(TRUE, 1, 1000, 1010) >>

Charts == {StreakChart, SustainChart, AmbientChart, TailChart, ShortChart}

\* noteTrue$ and noteFalse$: the rows of each branch, in chart order
noteTrue == SelectSeq(chart, LAMBDA r : r.userPlayed)
noteFalse == SelectSeq(chart, LAMBDA r : ~r.userPlayed)

gameEndTime == chart[Len(chart)].end

\* due times (ms) of the chart timers that have not fired yet
dueTrue == IF spawned < Len(noteTrue) THEN {noteTrue[spawned + 1].start} ELSE {}

\* noteFalse$ without the delay of the travel duration
dueFalse_noDelay ==
    IF played < Len(noteFalse) THEN {noteFalse[played + 1].start} ELSE {}

dueFalse ==
    IF played < Len(noteFalse)
    THEN {noteFalse[played + 1].start + NOTE_TRAVEL_DURATION} ELSE {}

\* gameEndNotifier$ without the grace period of the travel duration
dueEnd_noGrace == IF endFired THEN {} ELSE {gameEndTime}

dueEnd == IF endFired THEN {} ELSE {gameEndTime + NOTE_TRAVEL_DURATION}
duePending == dueTrue \cup dueFalse \cup dueEnd

\* a chart timer fires in the slot of its due time, earliest due time first
fires(d) ==
    /\ d \div TICK_RATE_MS <= clock
    /\ \A o \in duePending : d <= o

(* -------------------------- the executor ------------------------------- *)

\* playInstrument of every entry of playNote: a note with a tail starts a
\* sustain, which waits for the key release of its lane or for its duration
playInstrument(st) ==
    LET tailed == SelectSeq(st.playNote, hasTail)
    IN  [i \in 1 .. Len(tailed) |->
            [id |-> tailed[i].id,
             lane |-> assignColumn(tailed[i].pitch),
             end |-> tailed[i].end,
             due |-> clock + (tailed[i].end - tailed[i].start) \div TICK_RATE_MS]]

\* render that does not unsubscribe source$ when the game has ended
Emit_noUnsubscribe(e, waiting) ==
    /\ s' = reduceState(s, e)
    /\ subs' = waiting \o playInstrument(s')
    /\ started' = started \cup {s'.playNote[i].id : i \in {j \in 1 .. Len(s'.playNote) : hasTail(s'.playNote[j])}}
    /\ unsubscribed' = unsubscribed

\* one event of the merged channel: scan(reduceState) and then render
Emit(e, waiting) ==
    /\ s' = reduceState(s, e)
    /\ subs' = waiting \o playInstrument(s')
    /\ started' = started \cup {s'.playNote[i].id : i \in {j \in 1 .. Len(s'.playNote) : hasTail(s'.playNote[j])}}
    /\ unsubscribed' = s'.gameEnd

(* ------------------------------ actions -------------------------------- *)

Init ==
    /\ chart \in Charts
    /\ s = initialState
    /\ clock = 0
    /\ spawned = 0
    /\ played = 0
    /\ endFired = FALSE
    /\ unsubscribed = FALSE
    /\ subs = <<>>
    /\ started = {}
    /\ held = {}
    /\ holding = {}
    /\ dispatch = <<>>
    /\ published = {}
    /\ rng = Seeds

\* gameClock$: the next pulse of interval(20)
Tick ==
    /\ ~unsubscribed
    /\ dispatch = <<>>
    /\ \A d \in duePending : d \div TICK_RATE_MS > clock
    /\ \A i \in 1 .. Len(subs) : subs[i].due > clock
    /\ Emit([type |-> "Tick", elapsed |-> clock], subs)
    /\ clock' = clock + 1
    /\ UNCHANGED <<chart, spawned, played, endFired, held, holding, dispatch, published, rng>>

\* noteTrue$: the delay of the next player row elapses
PlayerSpawn ==
    /\ ~unsubscribed
    /\ dispatch = <<>>
    /\ \E d \in dueTrue : fires(d)
    /\ Emit([type |-> "MusicNote", note |-> noteTrue[spawned + 1]], subs)
    /\ spawned' = spawned + 1
    /\ UNCHANGED <<chart, clock, played, endFired, held, holding, dispatch, published, rng>>

\* noteFalse$: the delay of the next ambient row elapses
BackgroundSpawn ==
    /\ ~unsubscribed
    /\ dispatch = <<>>
    /\ \E d \in dueFalse : fires(d)
    /\ Emit([type |-> "BackgroundNote", note |-> noteFalse[played + 1]], subs)
    /\ played' = played + 1
    /\ UNCHANGED <<chart, clock, spawned, endFired, held, holding, dispatch, published, rng>>

\* gameEndNotifier$
GameEnd ==
    /\ ~unsubscribed
    /\ dispatch = <<>>
    /\ \E d \in dueEnd : fires(d)
    /\ Emit([type |-> "Number"], subs)
    /\ endFired' = TRUE
    /\ UNCHANGED <<chart, clock, spawned, played, held, holding, dispatch, published, rng>>

Keys == {c \in Columns : c <= MaxKey}

misPress(st, c) ==
    LET k == findNote(st, c) IN k = 0 \/ ~isAligned(st.note[k])

\* the press of column c hits a note with a tail
holds(st, c) ==
    LET k == findNote(st, c) IN k # 0 /\ isAligned(st.note[k]) /\ hasTail(st.note[k])

\* keyDown$: a physical key-down of lane c (auto-repeat is filtered out)
KeyDown(c) ==
    /\ dispatch = <<>>
    /\ c \notin held
    /\ Cardinality(held) < MaxHeld
    /\ held' = held \cup {c}
    /\ holding' = IF ~unsubscribed /\ holds(s, c)
                  THEN holding \cup {<<c, s.note[findNote(s, c)].id>>}
                  ELSE holding
    /\ IF unsubscribed
       THEN UNCHANGED <<s, subs, started, unsubscribed>>
       ELSE /\ misPress(s, c) => Len(s.randomNotes) < MaxRandom
            /\ Emit([type |-> "KeyPressEvent", column |-> c], subs)
    /\ UNCHANGED <<chart, clock, spawned, played, endFired, dispatch, published, rng>>

\* KeyUp whose listeners are not completed by take(1): the duration timers
\* of the released sustains stay armed
KeyUp_noTake(c) ==
    /\ dispatch = <<>>
    /\ c \in held
    /\ held' = held \ {c}
    /\ holding' = {h \in holding : h[1] # c}
    /\ dispatch' = SelectSeq(subs, LAMBDA u : u.lane = c)
    /\ UNCHANGED <<s, chart, clock, spawned, played, endFired, unsubscribed,
                   subs, started, published, rng>>

\* a physical key-up of lane c: the keyUpStream$ listeners of the sustains of
\* that lane are invoked one after the other, in subscription order
KeyUp(c) ==
    /\ dispatch = <<>>
    /\ c \in held
    /\ held' = held \ {c}
    /\ holding' = {h \in holding : h[1] # c}
    /\ dispatch' = SelectSeq(subs, LAMBDA u : u.lane = c)
    /\ subs' = SelectSeq(subs, LAMBDA u : u.lane # c)
    /\ UNCHANGED <<s, chart, clock, spawned, played, endFired, unsubscribed, started, published, rng>>

\* the next keyUpStream$ listener wins its race: tailSubject$.next(note.end)
TailEnd ==
    /\ dispatch # <<>>
    /\ dispatch' = Tail(dispatch)
    /\ IF unsubscribed
       THEN UNCHANGED <<s, subs, started, unsubscribed>>
       ELSE Emit([type |-> "EndTail", endTime |-> Head(dispatch).end], subs)
    /\ published' = IF unsubscribed THEN published
                     ELSE published \cup {Head(dispatch).id}
    /\ UNCHANGED <<chart, clock, spawned, played, endFired, held, holding, rng>>

RemoveAt(q, i) == SubSeq(q, 1, i - 1) \o SubSeq(q, i + 1, Len(q))

\* duration$ wins the race of sustain i: the sound stops, nothing is published
DurationTimeout(i) ==
    /\ dispatch = <<>>
    /\ unsubscribed \/ subs[i].due <= clock
    /\ subs' = RemoveAt(subs, i)
    /\ UNCHANGED <<s, chart, clock, spawned, played, endFired, unsubscribed, started, held, holding, dispatch, published, rng>>

Next ==
    \/ Tick
    \/ PlayerSpawn
    \/ BackgroundSpawn
    \/ GameEnd
    \/ \E c \in Keys : KeyDown(c)
    \/ \E c \in Keys : KeyUp(c)
    \/ TailEnd
    \/ \E i \in 1 .. Len(subs) : DurationTimeout(i)

Spec == Init /\ [][Next]_vars

\* playRandomNote: randomSubject$.next() advances the scan of each of the four
\* generator streams by one hash
playRandomNote ==
    /\ rng' = [i \in 1 .. 4 |-> hash(rng[i])]
    /\ UNCHANGED <<s, chart, clock, spawned, played, endFired, unsubscribed,
                   subs, started, held, holding, dispatch, published>>

\* the generator on its own: any number of filler triggers
InitRng == Init /\ chart = StreakChart
NextRng == playRandomNote
SpecRng == InitRng /\ [][NextRng]_vars

\* the timers fire: the interval, the chart delays, the game-end delay and
\* the duration timers are served whenever they are due again and again, and
\* a key-up listener that has been invoked completes
Fairness ==
    /\ SF_vars(Tick)
    /\ SF_vars(PlayerSpawn)
    /\ SF_vars(BackgroundSpawn)
    /\ SF_vars(GameEnd)
    /\ SF_vars(\E i \in 1 .. Len(subs) : DurationTimeout(i))
    /\ WF_vars(TailEnd)

\* the charts whose runs are followed to their end
InitFair == Init /\ chart \in {AmbientChart, ShortChart}
FairSpec == InitFair /\ [][Next]_vars /\ Fairness

(* ----------------------- steps of the reducer -------------------------- *)

\* the steps in which the reducer folds an event of a given kind
TickStep == clock' = clock + 1
SpawnStep == spawned' = spawned + 1
BackgroundStep == played' = played + 1
EndStep == endFired' # endFired
PressStep(c) == ~unsubscribed /\ c \notin held /\ c \in held'
ReleaseStep == ~unsubscribed /\ dispatch # <<>> /\ dispatch' = Tail(dispatch)

\* the first live note of column c, as a set of at most one index
Located(c) ==
    {i \in 1 .. Len(s.note) :
        /\ s.note[i].pitch % 4 = c
        /\ \A j \in 1 .. (i - 1) : s.note[j].pitch % 4 # c}

OnLine(n) == n.cy >= Px(350 - 30) /\ n.cy <= Px(350 + 30)

Without(q, i) == [j \in 1 .. (Len(q) - 1) |-> IF j < i THEN q[j] ELSE q[j + 1]]

\* the time error of a tail release with the end time of the listener in turn
ReleaseError == s.time * 20 - Head(dispatch).end - 2000
ReleaseAligned == ReleaseError >= -250 /\ ReleaseError <= 250

\* live tailless notes that expire on the tick about to be folded
Missed == {i \in 1 .. Len(s.note) : s.note[i].tail = <<>> /\ clock - s.note[i].createTime > 100}

TaillessHit(c) ==
    PressStep(c) /\ \E i \in Located(c) : s.note[i].tail = <<>> /\ OnLine(s.note[i])

ScoringStep == (\E c \in Columns : TaillessHit(c)) \/ (ReleaseStep /\ ReleaseAligned)

(* ------------------------------ claims --------------------------------- *)

\* C1: over every transition the score never decreases.
C1_ScoreMonotone == [][s'.score >= s.score]_vars

\* a score of at least 2 that has outlived a reset of the streak
C1_Witness == s.score >= Pt(2) /\ s.consecutiveHits = 0

\* C2: over every transition the multiplier stays, grows by exactly 0.2 or
\* becomes 1; it grows only in a scoring update whose incremented streak is a
\* positive multiple of 10; it is reset to 1, with the streak to 0, on every
\* tick that counts a miss and on every misaligned tail release, and a
\* multiplier other than 1 becomes 1 on no other event.
C2_MultiplierSteps ==
    [][ /\ \/ s'.multiplier = s.multiplier
           \/ s'.multiplier = s.multiplier + 20
           \/ s'.multiplier = Pt(1)
        /\ s'.multiplier > s.multiplier =>
              /\ ScoringStep
              /\ s'.consecutiveHits = s.consecutiveHits + 1
              /\ s'.consecutiveHits > 0
              /\ s'.consecutiveHits % 10 = 0
        /\ (TickStep /\ Missed # {}) \/ (ReleaseStep /\ ~ReleaseAligned) =>
              s'.multiplier = Pt(1) /\ s'.consecutiveHits = 0
        /\ s'.multiplier < s.multiplier =>
              (TickStep /\ Missed # {}) \/ (ReleaseStep /\ ~ReleaseAligned)
      ]_vars

\* the multiplier has been raised at the tenth hit and reset by a miss
C2_Witness == s.score = 1020 /\ s.multiplier = Pt(1) /\ s.consecutiveHits = 0

\* C3: in every reachable state multiplier = 1 + 0.2 * floor(streak / 10).
C3_MultiplierOfStreak == s.multiplier = Pt(1) + 20 * (s.consecutiveHits \div 10)

\* twenty scoring updates in a row: the multiplier is 1.4
C3_Witness == s.consecutiveHits = 20 /\ s.multiplier = 140

\* C4: in every reachable state no two live notes share an id and no two live
\* tails share an id; noteCount grows by exactly 1 on every player spawn and
\* is changed by no other event.
UniqueIds ==
    /\ \A i, j \in 1 .. Len(s.note) : s.note[i].id = s.note[j].id => i = j
    /\ \A i, j \in 1 .. Len(s.tail) : s.tail[i].id = s.tail[j].id => i = j

C4_UniqueIds ==
    /\ []UniqueIds
    /\ [][IF SpawnStep THEN s'.noteCount = s.noteCount + 1
                       ELSE s'.noteCount = s.noteCount]_vars

\* two notes and a tail are live together
C4_Witness == Len(s.note) >= 2 /\ Len(s.tail) >= 1

C6_TaillessHit ==
    [][\A c \in Columns : \A i \in Located(c) :
          (PressStep(c) /\ s.note[i].tail = <<>> /\ OnLine(s.note[i])) =>
             /\ s'.note = Without(s.note, i)
             /\ s'.exit = Append(s.exit, s.note[i])
             /\ s'.playNote = Append(s.playNote, s.note[i])
             /\ s'.consecutiveHits = s.consecutiveHits + 1
             /\ s'.score = s.score + s'.multiplier
      ]_vars

\* a tailless note has just been hit while other notes stay live
C6_Witness ==
    /\ s.consecutiveHits >= 1
    /\ Len(s.note) >= 1
    /\ \E i \in 1 .. Len(s.playNote) :
          /\ s.playNote[i].id # ""
          /\ s.playNote[i].tail = <<>>
          /\ Includes(s.exit, s.playNote[i])

\* C7: a press that locates no note, or a note farther than 30 from the hit
\* line, appends one entry to randomNotes and changes nothing else.
C7_MisPress ==
    [][\A c \in Columns :
          (PressStep(c) /\ (Located(c) = {} \/ \E i \in Located(c) : ~OnLine(s.note[i]))) =>
             /\ Len(s'.randomNotes) = Len(s.randomNotes) + 1
             /\ SubSeq(s'.randomNotes, 1, Len(s.randomNotes)) = s.randomNotes
             /\ s'.score = s.score
             /\ s'.consecutiveHits = s.consecutiveHits
             /\ s'.multiplier = s.multiplier
             /\ s'.note = s.note
             /\ s'.tail = s.tail
             /\ s'.exit = s.exit
             /\ s'.playNote = s.playNote
             /\ s'.noteCount = s.noteCount
             /\ s'.time = s.time
             /\ s'.gameEnd = s.gameEnd
      ]_vars

\* a key is down on a lane whose first note is off the line, and the press
\* has been recorded
C7_Witness ==
    /\ Len(s.randomNotes) = 1
    /\ \E c \in held : \E i \in Located(c) : ~OnLine(s.note[i])

\* C8: an aligned press on a note with a tail removes the note, appends it to
\* exit and playNote, leaves score, streak and multiplier alone and leaves
\* the live tails, the tail of the note among them, as they are.
C8_TailedHit ==
    [][\A c \in Columns : \A i \in Located(c) :
          (PressStep(c) /\ s.note[i].tail # <<>> /\ OnLine(s.note[i])) =>
             /\ s'.note = Without(s.note, i)
             /\ s'.exit = Append(s.exit, s.note[i])
             /\ s'.playNote = Append(s.playNote, s.note[i])
             /\ s'.score = s.score
             /\ s'.consecutiveHits = s.consecutiveHits
             /\ s'.multiplier = s.multiplier
             /\ s'.tail = s.tail
             /\ \E j \in 1 .. Len(s'.tail) : s'.tail[j].id = s.note[i].tail[1].id
      ]_vars

\* a note with a tail has just been pressed: it is played, its tail is live
C8_Witness ==
    \E i \in 1 .. Len(s.playNote) :
        /\ s.playNote[i].id # ""
        /\ s.playNote[i].tail # <<>>
        /\ \A j \in 1 .. Len(s.note) : s.note[j].id # s.playNote[i].id
        /\ \E j \in 1 .. Len(s.tail) : s.tail[j].id = s.playNote[i].tail[1].id

\* C9: a tail release with end time e folded at tick count t applies the
\* scoring update iff |t * 0.02 - e - 2| <= 0.25 s, and otherwise resets the
\* streak to 0 and the multiplier to 1 with the score unchanged; live notes,
\* live tails, exit and the transient sequences are unchanged either way.
C9_TailRelease ==
    [][ReleaseStep =>
        /\ IF ReleaseAligned
           THEN /\ s'.consecutiveHits = s.consecutiveHits + 1
                /\ s'.multiplier =
                      IF s'.consecutiveHits % 10 = 0 THEN s.multiplier + 20 ELSE s.multiplier
                /\ s'.score = s.score + s'.multiplier
           ELSE /\ s'.consecutiveHits = 0
                /\ s'.multiplier = Pt(1)
                /\ s'.score = s.score
        /\ s'.note = s.note
        /\ s'.tail = s.tail
        /\ s'.exit = s.exit
        /\ s'.playNote = s.playNote
        /\ s'.backgroundNote = s.backgroundNote
        /\ s'.randomNotes = s.randomNotes
      ]_vars

\* in the sustain chart the second point is scored while the closing note is
\* still above the hit window: it came from the release of the tail
C9_Witness ==
    /\ chart = SustainChart
    /\ "note0" \in started
    /\ s.score >= Pt(2)
    /\ Len(s.note) = 1
    /\ s.note[1].cy < Px(350 - 30)

\* C10: end to end, for the sustain note of 2.0 s spawned at start 0 and
\* pressed inside its hit window: releasing the lane key between 3.8 s and
\* 4.2 s of game time sends a tail release to the reducer, which applies the
\* scoring update; releasing it at 3.6 s or at 4.4 s sends a tail release
\* that resets the streak to 0 and the multiplier to 1.
KeyUpStep(c) == c \in held /\ c \notin held'

C10_SustainRelease ==
    [][ /\ ( /\ KeyUpStep(0)
             /\ chart = SustainChart
             /\ <<0, "note0">> \in holding
             /\ clock \in (190 .. 210) \cup {180, 220} )
           => dispatch' # <<>>
        /\ (ReleaseStep /\ chart = SustainChart /\ clock \in 190 .. 210)
           => /\ s'.consecutiveHits = s.consecutiveHits + 1
              /\ s'.score = s.score + s'.multiplier
        /\ (ReleaseStep /\ chart = SustainChart /\ clock \in {180, 220})
           => /\ s'.consecutiveHits = 0
              /\ s'.multiplier = Pt(1)
      ]_vars

\* C11: the state produced by every Tick has playNote, backgroundNote and
\* randomNotes empty, so in every reachable state each entry of playNote was
\* added after the most recent Tick: a hit note has the cy of a note moved by
\* every Tick up to the current time, an ambient note the current time as its
\* createTime.
Fresh(p) ==
    IF p.userPlayed
    THEN p.cy \in {movementPerTick * (s.time - p.createTime),
                   movementPerTick * (s.time - p.createTime + 1)}
    ELSE p.createTime = s.time

C11_TransientsPerTick ==
    /\ [](\A i \in 1 .. Len(s.playNote) : Fresh(s.playNote[i]))
    /\ [][TickStep => /\ s'.playNote = <<>>
                      /\ s'.backgroundNote = <<>>
                      /\ s'.randomNotes = <<>>]_vars

\* a Tick has cleared the play request of the sustain note after its sound
\* was started
C11_Witness ==
    /\ chart = SustainChart
    /\ "note0" \in started
    /\ s.playNote = <<>>
    /\ s.randomNotes = <<>>
    /\ s.exit = <<>>

\* the ambient note a background-spawn step materializes
ambientNote == createNote(s, [type |-> "BackgroundNote", note |-> noteFalse[played + 1]])

\* C12 (as claimed): after a background-spawn event playNote consists of
\* every entry it held before the event followed by the new ambient note.
C12_BackgroundEnqueue ==
    [][BackgroundStep => s'.playNote = Append(s.playNote, ambientNote)]_vars

\* C12 (amended): a background-spawn event sets playNote to a new sequence
\* that holds the new ambient note only, whatever playNote held before, and
\* changes no other field of the state.
C12_BackgroundReplaces ==
    [][BackgroundStep => s' = [s EXCEPT !.playNote = <<ambientNote>>]]_vars

\* the ambient note is the only play request although the player note of
\* the same start was hit earlier in the same tick period
C12_Witness ==
    /\ chart = AmbientChart
    /\ played = 1
    /\ Len(s.playNote) = 1
    /\ ~s.playNote[1].userPlayed
    /\ \E i \in 1 .. Len(s.exit) : s.exit[i].id = "note0"
    /\ s.score = Pt(1)

\* C13: ambient notes are never judged: a background-spawn step leaves
\* score, consecutiveHits and multiplier unchanged, and every tail release
\* that reaches the reducer comes from the sustain of a player note that was
\* hit (its id is a note id, and a press on the note is what started it), so
\* no step caused by an ambient note changes the three fields.
Judged == <<s.score, s.consecutiveHits, s.multiplier>>

C13_AmbientNotJudged ==
    [][ /\ BackgroundStep => Judged' = Judged
        /\ ReleaseStep => /\ Head(dispatch).id # ""
                          /\ Head(dispatch).id \in started
      ]_vars

\* C14: for every sustained note that was hit at most one tail release
\* reaches the reducer over the whole run: no key release invokes two
\* listeners of the same note, and no tail release is delivered for a note
\* for which one was delivered before.
Hit(u) == u.id # ""

C14_OneReleasePerNote ==
    /\ [](\A i, j \in 1 .. Len(dispatch) :
            (Hit(dispatch[i]) /\ dispatch[i].id = dispatch[j].id) => i = j)
    /\ [][(ReleaseStep /\ Hit(Head(dispatch)))
            => Head(dispatch).id \notin published]_vars

\* C15: for one started sustain the key release and the duration timeout
\* race first-wins.  A timeout step takes one due listener out of subs and
\* publishes nothing; a key release takes exactly the pending listeners of its
\* lane out of subs, and each of them publishes one tail release; nothing
\* else removes a listener, so every started sustain is resolved once, and
\* a tail release is published only by a listener that a key release took.
TimeoutStep == Len(subs') = Len(subs) - 1 /\ dispatch' = dispatch /\ held' = held

\* the steps after which render runs
Rendered == ~unsubscribed /\ ~TimeoutStep /\ ~(\E c \in Columns : KeyUpStep(c))

Pending == Len(subs) + Len(dispatch)

C15_RaceFirstWins ==
    [][ /\ TimeoutStep
           => /\ s' = s
              /\ published' = published
              /\ \E i \in 1 .. Len(subs) :
                    /\ subs' = RemoveAt(subs, i)
                    /\ unsubscribed \/ subs[i].due <= clock
        /\ \A c \in Columns : KeyUpStep(c)
           => /\ dispatch' = SelectSeq(subs, LAMBDA u : u.lane = c)
              /\ subs' = SelectSeq(subs, LAMBDA u : u.lane # c)
              /\ s' = s
              /\ published' = published
        /\ dispatch # <<>>
           => /\ dispatch' = Tail(dispatch)
              /\ ~unsubscribed
                 => /\ s' = reduceState(s, [type |-> "EndTail", endTime |-> Head(dispatch).end])
                    /\ published' = published \cup {Head(dispatch).id}
        /\ dispatch = <<>> => published' = published
        /\ Pending' = Pending
                      + (IF Rendered THEN Len(SelectSeq(s'.playNote, hasTail)) ELSE 0)
                      - (IF TimeoutStep \/ dispatch # <<>> THEN 1 ELSE 0)
      ]_vars

\* the timeout of the sustain of note0 has fired while the key is still
\* down: its listener is gone and nothing has been published
C15_Witness ==
    /\ chart = TailChart
    /\ <<0, "note0">> \in holding
    /\ "note0" \in started
    /\ subs = <<>>
    /\ dispatch = <<>>
    /\ published = {}

\* C16: once the game-end event has been processed (gameEnd is true) no
\* later event changes the state: ticks, spawn and background timers, key
\* presses and tail releases leave every State field as it is, and gameEnd
\* never returns to false.
C16_FrozenAfterEnd ==
    [][s.gameEnd => s' = s]_vars

\* the game has ended and a key release that came after the end is being
\* delivered to the listener of a sustain that was still pending
C16_Witness ==
    /\ s.gameEnd
    /\ unsubscribed
    /\ dispatch # <<>>

\* C17: on every Tick a live note with elapsed - createTime <= 100 has its cy
\* increased by exactly 3.5 and no other field changed; on the first Tick
\* with elapsed - createTime > 100 it is no longer a live note and is in
\* exit.  No event other than a Tick changes the cy of a live note.
TravelTicks == NOTE_TRAVEL_DURATION \div TICK_RATE_MS

C17_NoteMotion ==
    [][ /\ TickStep
           => \A i \in 1 .. Len(s.note) :
                IF clock - s.note[i].createTime <= TravelTicks
                THEN Includes(s'.note, [s.note[i] EXCEPT !.cy = s.note[i].cy + Px(3) + 5])
                ELSE /\ \A j \in 1 .. Len(s'.note) : s'.note[j].id # s.note[i].id
                     /\ Includes(s'.exit, s.note[i])
        /\ ~TickStep
           => \A i \in 1 .. Len(s.note), j \in 1 .. Len(s'.note) :
                s'.note[j].id = s.note[i].id => s'.note[j].cy = s.note[i].cy
      ]_vars

\* a Tick has retired the note of start 0 into exit while the later note is
\* on its way down
C17_Witness ==
    /\ chart = AmbientChart
    /\ \E i \in 1 .. Len(s.exit) : s.exit[i].id = "note0" /\ s.exit[i].cy > Px(350)
    /\ \E j \in 1 .. Len(s.note) : s.note[j].id = "note1" /\ s.note[j].cy = 72 * movementPerTick

\* C18: for every x reachable by iterating hash from one of the seeds 100, 1,
\* 2 and 3, hash(x) lies in 0 .. 2^31 - 1 and scale(hash(x)), the quotient
\* hash(x) / (2^31 - 1), is at least 0 and strictly less than 1.
C18_HashRange ==
    \A i \in 1 .. 4 :
        LET h == hash(rng[i])
        IN  /\ h \in 0 .. RNG_m1
            /\ scale(h).num >= 0
            /\ scale(h).num < scale(h).den

\* the largest hash of the four orbits: the product is far above 2^53, so
\* both the product and the sum have been rounded
C18_Witness ==
    \E i \in 1 .. 4 :
        /\ BitLen(Mul(RNG_a, rng[i])) > 53
        /\ hash(rng[i]) = RNG_m1 - 13567

\* C19: a player-spawn event appends exactly one new note, with cy = 0 and
\* createTime = the current time, at the end of the live notes, increments
\* noteCount by exactly 1, and appends a tail to the live tails iff
\* end - start >= 1 s; it leaves the existing live notes and tails, score,
\* consecutiveHits, multiplier, exit and the transient sequences unchanged.
C19_PlayerSpawn ==
    [][SpawnStep
        => LET row == noteTrue[spawned + 1]
               new == s'.note[Len(s'.note)]
           IN  /\ Len(s'.note) = Len(s.note) + 1
               /\ SubSeq(s'.note, 1, Len(s.note)) = s.note
               /\ new.cy = 0
               /\ new.createTime = s.time
               /\ new.pitch = row.pitch /\ new.start = row.start /\ new.end = row.end
               /\ s'.noteCount = s.noteCount + 1
               /\ IF row.end - row.start >= 1000
                  THEN /\ Len(s'.tail) = Len(s.tail) + 1
                       /\ SubSeq(s'.tail, 1, Len(s.tail)) = s.tail
                       /\ new.tail = << s'.tail[Len(s'.tail)] >>
                       /\ s'.tail[Len(s'.tail)].duration = row.end - row.start
                  ELSE /\ s'.tail = s.tail
                       /\ new.tail = <<>>
               /\ s'.score = s.score
               /\ s'.consecutiveHits = s.consecutiveHits
               /\ s'.multiplier = s.multiplier
               /\ s'.exit = s.exit
               /\ s'.playNote = s.playNote
               /\ s'.backgroundNote = s.backgroundNote
               /\ s'.randomNotes = s.randomNotes
               /\ s'.time = s.time
               /\ s'.gameEnd = s.gameEnd
      ]_vars

\* the note of start 1.9 s has just been spawned behind the live sustain
\* note of exactly 1.0 s, whose tail is among the live tails
C19_Witness ==
    /\ chart = TailChart
    /\ s.noteCount = 2
    /\ Len(s.note) = 2
    /\ s.note[1].tail # <<>> /\ s.note[1].tail[1].duration = 1000
    /\ s.note[2].cy = 0 /\ s.note[2].createTime = s.time /\ s.time = 94
    /\ s.note[2].tail = <<>>
    /\ Len(s.tail) = 1

\* C20: a tail leaves the live tails only on a Tick at which
\* elapsed - createTime > 5 * duration / 0.02, that is 250 ticks per second
\* of duration, and on that Tick it is placed in exit; such a Tick always
\* removes it.  No other step removes a tail: not the aligned press that
\* removes its note, not the expiry of its note, not a tail release.
TailDue(t) == (clock - t.createTime) * 1000 > 250 * t.duration

TailGone(t) == \A j \in 1 .. Len(s'.tail) : s'.tail[j].id # t.id

C20_TailLeaves ==
    [][\A i \in 1 .. Len(s.tail) :
          /\ TailGone(s.tail[i])
             => /\ TickStep
                /\ TailDue(s.tail[i])
                /\ Includes(s'.exit, s.tail[i])
          /\ (TickStep /\ TailDue(s.tail[i])) => TailGone(s.tail[i])
      ]_vars

\* the tail of the 1.0 s sustain has been retired into exit by the Tick
\* with elapsed = 251, long after its note was pressed or expired
C20_Witness ==
    /\ chart = TailChart
    /\ s.tail = <<>>
    /\ s.time = 251
    /\ \E i \in 1 .. Len(s.exit) : s.exit[i].id = "Tail0"
    /\ "note0" \in started

\* C21: every live tail has height >= 0 and y + height <= 350.  While
\* y + height < 350 a Tick moves y by 3.5 with the height unchanged; once
\* y + height = 350 each Tick decreases the height by 3.5, floored at 0, and
\* keeps y + height = 350; no field other than y and height changes.  The
\* height is 0 on the Tick that expires the tail.
TailBottom(t) == t.y + t.height

TailInside ==
    \A i \in 1 .. Len(s.tail) :
        s.tail[i].height >= 0 /\ TailBottom(s.tail[i]) <= Px(350)

C21_TailGeometry ==
    /\ []TailInside
    /\ [][TickStep
          => \A i \in 1 .. Len(s.tail) :
                LET t == s.tail[i]
                IN  IF TailGone(t)
                    THEN t.height = 0
                    ELSE IF TailBottom(t) < Px(350)
                    THEN Includes(s'.tail, [t EXCEPT !.y = t.y + Px(3) + 5])
                    ELSE \E j \in 1 .. Len(s'.tail) :
                            /\ s'.tail[j].height = Max(0, t.height - (Px(3) + 5))
                            /\ TailBottom(s'.tail[j]) = Px(350)
                            /\ s'.tail[j] = [t EXCEPT !.y = s'.tail[j].y,
                                                      !.height = s'.tail[j].height]
      ]_vars

\* the tail of the 1.0 s sustain is half consumed at the hit line
C21_Witness ==
    /\ chart = TailChart
    /\ Len(s.tail) = 1
    /\ s.tail[1].height = Px(175) \div 2
    /\ s.tail[1].y + s.tail[1].height = Px(350)

\* C22: a player note of start s is delivered to the reducer at s, in the
\* tick period of s, and an ambient note of start s at s + 2000 ms, 100 tick
\* periods later; at the moment the ambient note is put into playNote a live
\* player note with the same start has cy exactly 350, for s = 0 as well.
Period(ms) == ms \div TICK_RATE_MS

C22_AmbientOnLine ==
    [][ /\ SpawnStep => clock = Period(noteTrue[spawned + 1].start)
        /\ BackgroundStep
           => LET row == noteFalse[played + 1]
              IN  /\ clock = Period(row.start) + 100
                  /\ s'.playNote[Len(s'.playNote)].start = row.start
                  /\ \A i \in 1 .. Len(s'.note) :
                        s'.note[i].start = row.start => s'.note[i].cy = Px(350)
      ]_vars

\* the ambient note of start 0 has just been put into playNote and the
\* player note of start 0 is live
C22_Witness ==
    /\ chart = AmbientChart
    /\ played = 1
    /\ s.playNote # <<>>
    /\ ~s.playNote[Len(s.playNote)].userPlayed
    /\ \E i \in 1 .. Len(s.note) : s.note[i].start = 0 /\ s.note[i].id = "note0"

\* the live notes without a tail
LiveTailless == {i \in 1 .. Len(s.note) : ~hasTail(s.note[i])}

\* C23 (as claimed): with the timers firing, every run of a chart reaches a
\* state with gameEnd = true, and in such a state every player note of the
\* chart has been spawned and no tailless player note is live any more: each
\* has been hit or has expired.
C23_GameEnds ==
    /\ <>(s.gameEnd)
    /\ [](s.gameEnd => spawned = Len(noteTrue) /\ LiveTailless = {})

\* C23 (amended): with the timers firing, every run reaches a state with
\* gameEnd = true; the game-end event is folded in the tick period of the
\* last row's end + 2000 ms, when every player note has been spawned, and a
\* tailless player note is live then only if the last row ends in the tick
\* period in which the note started (in the first two periods for a note
\* spawned before the first Tick).
C23_GameEndsLate ==
    /\ <>(s.gameEnd)
    /\ [][EndStep => clock = Period(gameEndTime + 2000)]_vars
    /\ [](s.gameEnd
          => /\ spawned = Len(noteTrue)
             /\ \A i \in LiveTailless :
                  Max(Period(s.note[i].start), 1) >= Period(gameEndTime))

\* the game has ended while the last note, 10 ms long, sits on the hit line
C23_Witness ==
    /\ chart = ShortChart
    /\ s.gameEnd
    /\ \E i \in LiveTailless : s.note[i].id = "note1" /\ s.note[i].cy = Px(350)

\* C24: the executor acts on each transient entry exactly once.  render
\* starts the sound of every entry of playNote and one filler per entry of
\* randomNotes of the state it is given, so after every step that is
\* rendered no entry of playNote was already in the playNote of the state
\* rendered before, and randomNotes holds an entry only for a mis-press made
\* in that very step.
MisPressStep == \E c \in Columns : PressStep(c) /\ misPress(s, c)

C24_TriggeredOnce ==
    [][Rendered
        => /\ \A i \in 1 .. Len(s'.playNote) : ~Includes(s.playNote, s'.playNote[i])
           /\ Len(s'.randomNotes) = IF MisPressStep THEN 1 ELSE 0
      ]_vars

\* C25: the live notes are in spawn order with non-increasing cy along the
\* container, so a note removed by a lane press has the maximum cy among the
\* live notes of its lane, and a press is never rejected as a mis-press
\* while a live note of the pressed lane satisfies |cy - 350| <= 30.
SpawnOrdered ==
    \A i, j \in 1 .. Len(s.note) :
        i < j => /\ s.note[i].cy >= s.note[j].cy
                 /\ s.note[i].createTime <= s.note[j].createTime
                 /\ s.note[i].start <= s.note[j].start

InLane(c) == {i \in 1 .. Len(s.note) : assignColumn(s.note[i].pitch) = c}

C25_FirstIsLowest ==
    /\ []SpawnOrdered
    /\ [][\A c \in Columns :
            PressStep(c)
            => /\ Len(s'.randomNotes) > Len(s.randomNotes)
                  => \A i \in InLane(c) : Abs(s.note[i].cy - Px(350)) > Px(30)
               /\ \A i \in InLane(c) :
                    (\A j \in 1 .. Len(s'.note) : s'.note[j].id # s.note[i].id)
                    => \A k \in InLane(c) : s.note[i].cy >= s.note[k].cy
         ]_vars

\* the first of two live notes of lane 1 at different heights has just been
\* hit: the later one is still live and the earlier one is in exit
C25_Witness ==
    /\ chart = TailChart
    /\ \E i \in 1 .. Len(s.exit) :
          /\ s.exit[i].id = "note1"
          /\ Abs(s.exit[i].cy - Px(350)) <= Px(30)
    /\ \E j \in 1 .. Len(s.note) : s.note[j].id = "note2" /\ s.note[j].cy > 0
    /\ s.score >= Pt(1)

\* C26: every live note has 0 <= cy <= 350 in every reachable state: a note
\* receives at most 100 movement steps before it expires, a note spawned
\* before the first Tick included.
C26_NoteOnPath ==
    \A i \in 1 .. Len(s.note) :
        s.note[i].cy >= 0 /\ s.note[i].cy <= Px(NOTE_PATH_LENGTH)

\* C27: removal is always reported: whenever a step removes a note from the
\* live notes or a tail from the live tails, that note or tail is in exit of
\* the resulting state; and in every reachable state no id in exit is the
\* id of a live note or of a live tail.
Ids(q) == {q[i].id : i \in 1 .. Len(q)}

ExitNotLive == Ids(s.exit) \cap (Ids(s.note) \cup Ids(s.tail)) = {}

C27_RemovalReported ==
    /\ []ExitNotLive
    /\ [][ /\ \A i \in 1 .. Len(s.note) :
                s.note[i].id \notin Ids(s'.note) => Includes(s'.exit, s.note[i])
           /\ \A i \in 1 .. Len(s.tail) :
                s.tail[i].id \notin Ids(s'.tail) => Includes(s'.exit, s.tail[i])
         ]_vars

\* the sustain note has been pressed: it is in exit next to its live tail
C27_Witness ==
    /\ chart = TailChart
    /\ "note0" \in Ids(s.exit)
    /\ "note0" \notin Ids(s.note)
    /\ "Tail0" \in Ids(s.tail)
    /\ s.playNote # <<>>

====
